---- MODULE Spec2Model ----
(***************************************************************************)
(* A model of the halo2_examples range-check, decomposition and is-zero    *)
(* gadgets and of the Fibonacci and multiplication-chain circuits.  The state is the grid a synthesis pass fills in (advice       *)
(* cells, enabled selectors, the loaded lookup table, constant and copy    *)
(* constraints), the circuit's inputs and the position of synthesize.      *)
(* Field elements are the canonical representatives 0..p-1 of a prime      *)
(* field; the code is generic in F: PrimeField and the model instantiates  *)
(* it with small primes.                                                   *)
(***************************************************************************)
EXTENDS Integers, Sequences, FiniteSets, TLC

VARIABLES
  circuit,    \* which Circuit implementation is being synthesized
  p,          \* the modulus of the field F the circuit is instantiated with
  cfg,        \* the Config returned by configure
  input,      \* the fields of the circuit struct (witness values, arguments)
  pc,         \* the position of the synthesis pass
  advice,     \* advice[col][row]: the Value assigned to an advice cell
  selectors,  \* selectors[s]: the rows at which selector s is enabled
  table,      \* the rows assigned by the lookup table's load, in order
  loads,      \* how many times the table's load has run in this pass
  constants,  \* cells constrained to a constant (constrain_constant)
  copies,     \* copy constraints between cells
  nextRow,    \* first row not yet taken by a region
  regions,    \* the regions laid out so far: <<name, start row>>
  locals,     \* the chunks and widths computed inside DecomposeConfig::assign
  result,     \* what synthesize returned: "running", "Ok", "Err" or a panic
  failures    \* what MockProver::verify reported, once it has run

vars == <<circuit, p, cfg, input, pc, advice, selectors, table, loads, constants,
          copies, nextRow, regions, locals, result, failures>>

\* ---------------------------------------------------------------- bounds

\* largest chunk width K (LOOKUP_BITS) the decomposition circuit is built with
MaxLookupBits == 4

\* largest number of chunks of a decomposition whose cells a prover forges
MaxForgeChunks == 2

\* largest RANGE the polynomial range-check circuit is built with
MaxGateRange == 8

\* largest RANGE, LOOKUP_RANGE and range argument of the lookup range checks
MaxRange == 3

\* ---------------------------------------------------------------- the field F

\* the prime field the decomposition circuit is instantiated with
DecomposeModuli == {257}

\* the prime field of the circuits whose witness a prover forges
ForgeModuli == {5}

\* the prime field of the Fibonacci and multiplication-chain circuits, every
\* computed cell of which a prover forges
ChainModuli == {3}

\* the prime fields of the range-check and is-zero circuits
ExpressionModuli == {13}

RangeModuli == {5}

IsZeroModuli == {17}

RECURSIVE Pow2(_)
Pow2(n) == IF n = 0 THEN 1 ELSE 2 * Pow2(n - 1)

\* number of bits in the binary representation of n, at least one
RECURSIVE BitLen(_)
BitLen(n) == IF n < 2 THEN 1 ELSE 1 + BitLen(n \div 2)

Field == 0 .. (p - 1)

\* F::from(u64)
FromU64(n) == n % p

FAdd(a, b) == (a + b) % p

FSub(a, b) == (a + (p - b)) % p

FMul(a, b) == (a * b) % p

\* a^e in the field, by squaring
RECURSIVE FPow(_, _)
FPow(a, e) ==
  IF e = 0 THEN 1
  ELSE LET h == FPow(a, e \div 2)
       IN IF e % 2 = 0 THEN FMul(h, h) ELSE FMul(FMul(h, h), a)

\* Field::invert: None (here a record with some = FALSE) on zero, and
\* a^(p-2), the inverse in a prime field, otherwise
Invert(a) ==
  IF a = 0 THEN [some |-> FALSE, v |-> 0]
  ELSE [some |-> TRUE, v |-> FPow(a, p - 2)]

\* Assigned::invert followed by evaluate: the inverse, and zero for zero
InvertOrZero(a) == IF Invert(a).some THEN Invert(a).v ELSE 0

\* Value<F>
Known(x) == [known |-> TRUE, v |-> x]

Unknown == [known |-> FALSE, v |-> 0]

\* PrimeFieldBits::to_le_bits: the little-endian bits of the canonical form
ReprBits == BitLen(p)

ToLeBits(x) == [i \in 1 .. ReprBits |-> ((x \div Pow2(i - 1)) % 2) = 1]

\* ---------------------------------------------------------------- the grid

AdviceColumns ==
  {"running_sum", "c_i_bits", "value", "bits", "a", "b", "c", "output", "value_inv",
   "advice", "advice[0]", "advice[1]"}

SelectorNames == {"decompose_selector", "selector", "lookup_selector", "s_mul"}

EmptyColumn == [r \in {} |-> Unknown]

EmptyGrid == [c \in AdviceColumns |-> EmptyColumn]

NoSelectors == [s \in SelectorNames |-> {}]

NoLocals == [chunks |-> << >>, widths |-> << >>, writes |-> << >>]

Assigned(col, row) == row \in DOMAIN advice[col]

\* the value the prover reads from a cell: an unassigned cell reads as zero
CellIn(grid, col, row) ==
  IF row \in DOMAIN grid[col] /\ grid[col][row].known THEN grid[col][row].v ELSE 0

Cell(col, row) == CellIn(advice, col, row)

SelIn(sels, s, row) == IF row \in sels[s] THEN 1 ELSE 0

Sel(s, row) == SelIn(selectors, s, row)

\* Region::assign_advice at an absolute row
AssignAdvice(grid, col, row, val) ==
  [grid EXCEPT ![col] = (row :> val) @@ @]

\* ---------------------------------------------------------------- lookup tables

\* a slip: the tag grows one row late
TaggedLoadStepLate(st) ==
  LET grow == (st.i = st.pow_of_two + 1)
      pow2 == IF grow THEN st.pow_of_two * 2 ELSE st.pow_of_two
      bits2 == IF grow THEN st.bits + 1 ELSE st.bits
  IN [i |-> st.i + 1, bits |-> bits2, pow_of_two |-> pow2,
      rows |-> Append(st.rows, [value |-> FromU64(st.i), bits |-> FromU64(bits2)])]

\* RangeCheckTable::load of the tagged table, the body of
\* `for i in 0..self.lookup_range`: bits and pow_of_two are carried from row
\* to row, and row i is assigned (i, bits)
TaggedLoadStep(st) ==
  LET grow == (st.i = st.pow_of_two)
      pow2 == IF grow THEN st.pow_of_two * 2 ELSE st.pow_of_two
      bits2 == IF grow THEN st.bits + 1 ELSE st.bits
  IN [i |-> st.i + 1, bits |-> bits2, pow_of_two |-> pow2,
      rows |-> Append(st.rows, [value |-> FromU64(st.i), bits |-> FromU64(bits2)])]

\* the loop from the state st until i reaches stop: the iterations run in
\* order, the first half of the remaining ones and then the rest
RECURSIVE TaggedLoadLoop(_, _)
TaggedLoadLoop(st, stop) ==
  IF st.i >= stop THEN st
  ELSE IF st.i + 1 = stop THEN TaggedLoadStep(st)
  ELSE TaggedLoadLoop(TaggedLoadLoop(st, (st.i + stop) \div 2), stop)

\* `let mut bits = 1; let mut pow_of_two = 2;` and the loop over 0..lookup_range
TaggedTableRows(lookup_range) ==
  TaggedLoadLoop([i |-> 0, bits |-> 1, pow_of_two |-> 2, rows |-> << >>],
                 lookup_range).rows

\* the tuples a lookup may hit: the assigned rows (the unused rows of a table
\* column repeat row 0); a table that was never loaded holds zeros only
TableSet(t, zeroRow) == IF t = << >> THEN {zeroRow} ELSE {t[i] : i \in DOMAIN t}

\* ---------------------------------------------------------------- layout

\* the layouter opens a region at the first free row
OpenRegion(name) == Append(regions, [name |-> name, start |-> nextRow])

\* the region a row lies in, and the row's offset in it
RegionIndex(row) ==
  IF \E i \in DOMAIN regions : regions[i].start <= row
  THEN CHOOSE i \in DOMAIN regions :
         /\ regions[i].start <= row
         /\ \A j \in DOMAIN regions : regions[j].start <= row => j <= i
  ELSE 0

\* the rows a run leaves usable: assigning a cell or enabling a selector at
\* another row returns Error::NotEnoughRowsAvailable; a circuit configured
\* without the field is run with rows to spare
UsableRow(row) == ("usable_rows" \notin DOMAIN cfg) \/ (row < cfg.usable_rows)

\* a VerifyFailure: its kind, the gate or lookup it names, the constraint's
\* index in the gate, and the location: the region (its number, counted
\* from 0, and its name) and the offset in it
Failure(kind, name, index, row) ==
  LET i == RegionIndex(row)
  IN IF i = 0 \/ row >= nextRow
     THEN [kind |-> kind, name |-> name, index |-> index,
           region |-> <<Len(regions), "outside">>, offset |-> row]
     ELSE [kind |-> kind, name |-> name, index |-> index,
           region |-> <<i - 1, regions[i].name>>, offset |-> row - regions[i].start]

\* ---------------------------------------------------------------- decomposition

\* a slip: the first bit is taken as the most significant one
RECURSIVE BitsToU64BigEndian(_)
BitsToU64BigEndian(bits) ==
  IF bits = << >> THEN 0
  ELSE (IF bits[Len(bits)] THEN 1 ELSE 0)
         + 2 * BitsToU64BigEndian(SubSeq(bits, 1, Len(bits) - 1))

\* DecomposeConfig::bits_to_u64_little_endian
RECURSIVE BitsToU64LittleEndian(_)
BitsToU64LittleEndian(bits) ==
  IF bits = << >> THEN 0
  ELSE (IF bits[1] THEN 1 ELSE 0) + 2 * BitsToU64LittleEndian(Tail(bits))

\* slice::chunks(size): consecutive chunks, the last one possibly shorter
RECURSIVE Chunks(_, _)
Chunks(bits, size) ==
  IF bits = << >> THEN << >>
  ELSE IF Len(bits) <= size THEN << bits >>
  ELSE << SubSeq(bits, 1, size) >> \o Chunks(SubSeq(bits, size + 1, Len(bits)), size)

\* Iterator::take(n)
Take(bits, n) == SubSeq(bits, 1, IF n < Len(bits) THEN n ELSE Len(bits))

\* the inner loop `for i in (0..lookup_bits).rev()` from index i downwards:
\* chunk[i] is an indexing fault when i is past the end of the chunk
RECURSIVE ZeroBitsFrom(_, _)
ZeroBitsFrom(chunk, i) ==
  IF i < 0 THEN [panic |-> FALSE, n |-> 0]
  ELSE IF i >= Len(chunk) THEN [panic |-> TRUE, n |-> 0]
  ELSE IF chunk[i + 1] THEN [panic |-> FALSE, n |-> 0]
  ELSE LET rest == ZeroBitsFrom(chunk, i - 1)
       IN [panic |-> rest.panic, n |-> rest.n + 1]

ZeroBits(chunk, lookup_bits) == ZeroBitsFrom(chunk, lookup_bits - 1)

\* a slip: the width of an all-zero chunk stays 0
ChunkBitsNoFloor(chunk, zero_bits) == Len(chunk) - zero_bits

\* chunk.len() - zero_bits, set to 1 when it is 0
ChunkBits(chunk, zero_bits) ==
  LET chunk_bits == Len(chunk) - zero_bits
  IN IF chunk_bits = 0 THEN 1 ELSE chunk_bits

\* a slip: the running sum is scaled by 2^K instead of its inverse
NextRunningSumNoInvert(z, chunk, lookup_bits) ==
  FMul(FSub(z, chunk), FromU64(Pow2(lookup_bits)))

\* z_i = (z - chunk) * (2^K)^-1
NextRunningSum(z, chunk, lookup_bits) ==
  FMul(FSub(z, chunk), InvertOrZero(FromU64(Pow2(lookup_bits))))

\* a slip: the offset is not advanced
NextOffsetStuck(offset) == offset

\* `offset += 1`
NextOffset(offset) == offset + 1

\* the body of `for chunk in v.chunks(self.lookup_bits)`, from chunk number i
\* on; st carries offset, z, the grid, the computed chunks and widths, and
\* the (column, offset) of every cell written, in the order of the writes
RECURSIVE ChunkLoop(_, _, _, _, _)
ChunkLoop(chunks, i, start, lookup_bits, st) ==
  IF i > Len(chunks) THEN st
  ELSE LET chunk == chunks[i]
           zb == ZeroBits(chunk, lookup_bits)
       IN IF zb.panic THEN [st EXCEPT !.panic = TRUE]
          ELSE IF ~UsableRow(start + NextOffset(st.offset))
          \* assign_advice(z_i) returns Err and `.unwrap()` panics on it
          THEN [st EXCEPT !.unwrap = TRUE]
          ELSE LET chunk_bits == FromU64(ChunkBits(chunk, zb.n))
                   offset == NextOffset(st.offset)
                   c == FromU64(BitsToU64LittleEndian(chunk))
                   z_i == NextRunningSum(st.z, c, lookup_bits)
                   g1 == AssignAdvice(st.grid, "running_sum", start + offset, Known(z_i))
                   g2 == AssignAdvice(g1, "c_i_bits", start + offset, Known(chunk_bits))
               IN ChunkLoop(chunks, i + 1, start, lookup_bits,
                    [st EXCEPT !.offset = offset, !.z = z_i, !.grid = g2,
                               !.chunks = Append(@, c),
                               !.widths = Append(@, chunk_bits),
                               !.writes = @ \o << <<"running_sum", offset>>,
                                                  <<"c_i_bits", offset>> >>])

\* an off-by-one slip: the cell after the last running-sum cell
ConstrainedCellOffByOne(start, offset) ==
  [col |-> "running_sum", row |-> start + offset + 1, value |-> 0]

\* region.constrain_constant(z.cell(), F::ZERO): z is the last cell assigned
ConstrainedCell(start, offset) ==
  [col |-> "running_sum", row |-> start + offset, value |-> 0]

\* a slip: the loop stops one offset early
SelectorOffsetsShort(num_bits, lookup_bits) == 0 .. ((num_bits \div lookup_bits) - 2)

\* the offsets `for i in 0..(num_bits / self.lookup_bits)` enables
SelectorOffsets(num_bits, lookup_bits) == 0 .. ((num_bits \div lookup_bits) - 1)

SetMax(S) == CHOOSE x \in S : \A y \in S : y <= x

\* a slip: the error of the load is dropped and synthesize goes on
LoadTaggedGoesOn ==
  /\ pc = "load"
  /\ circuit \in {"decompose", "tagged"}
  /\ loads' = loads + 1
  /\ IF UsableRow(cfg.lookup_range - 1)
     THEN /\ table' = TaggedTableRows(cfg.lookup_range)
          /\ pc' = IF circuit = "decompose" THEN "witness" ELSE "done"
          /\ result' = IF circuit = "decompose" THEN result ELSE "Ok"
     ELSE /\ table' = TaggedTableRows(cfg.usable_rows)
          /\ pc' = IF circuit = "decompose" THEN "witness" ELSE "aborted"
          /\ result' = "Err"
  /\ UNCHANGED <<circuit, p, cfg, input, advice, selectors, constants, copies,
                 nextRow, regions, locals, failures>>

\* RangeCheckTable::load (tagged): rows 0..lookup_range-1
LoadTagged ==
  /\ pc = "load"
  /\ circuit \in {"decompose", "tagged"}
  /\ loads' = loads + 1
  /\ IF UsableRow(cfg.lookup_range - 1)
     THEN /\ table' = TaggedTableRows(cfg.lookup_range)
          /\ pc' = IF circuit = "decompose" THEN "witness" ELSE "done"
          /\ result' = IF circuit = "decompose" THEN result ELSE "Ok"
     \* assign_cell fails at the first row past the usable ones and `?`
     \* returns the error; the rows before it are loaded
     ELSE /\ table' = TaggedTableRows(cfg.usable_rows)
          /\ pc' = "aborted"
          /\ result' = "Err"
  /\ UNCHANGED <<circuit, p, cfg, input, advice, selectors, constants, copies,
                 nextRow, regions, locals, failures>>

\* RangeCheckCircuit::synthesize, the region "assign value somewhere"
AssignValueSomewhere ==
  /\ pc = "witness"
  /\ circuit = "decompose"
  /\ regions' = OpenRegion("assign value somewhere")
  /\ IF UsableRow(nextRow)
     THEN /\ advice' = AssignAdvice(advice, "running_sum", nextRow, input.value)
          /\ nextRow' = nextRow + 1
          /\ pc' = "assign"
          /\ UNCHANGED result
     ELSE /\ result' = "Err"
          /\ pc' = "aborted"
          /\ UNCHANGED <<advice, nextRow>>
  /\ UNCHANGED <<circuit, p, cfg, input, selectors, table, loads, constants,
                 copies, locals, failures>>

\* a slip: the cell at offset 0 is a fresh cell, tied to nothing but itself
CopyAdviceUnconstrained(src, dst) == <<dst, dst>>

\* AssignedCell::copy_advice: the equality constraint between the source
\* cell and the cell it is copied into
CopyAdvice(src, dst) == <<src, dst>>

\* DecomposeConfig::assign(value, num_bits), value being the cell witnessed
\* by the region before
DecomposeAssign ==
  /\ pc = "assign"
  /\ circuit = "decompose"
  /\ LET start == nextRow
         src == <<"running_sum", regions[Len(regions)].start>>
         value == advice[src[1]][src[2]]
         \* copy_advice: assign the cell at offset 0 and constrain it equal
         g0 == AssignAdvice(advice, "running_sum", start, value)
         st0 == [offset |-> 0, z |-> value.v, grid |-> g0, chunks |-> << >>,
                 widths |-> << >>, panic |-> FALSE, unwrap |-> FALSE,
                 writes |-> << <<"running_sum", 0>> >>]
         bits == Take(ToLeBits(value.v), input.num_bits)
         st == IF value.known
               THEN ChunkLoop(Chunks(bits, cfg.lookup_bits), 1, start,
                              cfg.lookup_bits, st0)
               ELSE st0
         enabled == {start + i : i \in SelectorOffsets(input.num_bits, cfg.lookup_bits)}
         last == SetMax({st.offset} \cup SelectorOffsets(input.num_bits, cfg.lookup_bits))
     IN /\ regions' = OpenRegion("decompose")
        /\ IF ~UsableRow(start)
           \* copy_advice fails and `?` returns the error
           THEN /\ result' = "Err"
                /\ pc' = "aborted"
                /\ UNCHANGED <<advice, copies, locals, selectors, constants, nextRow>>
           ELSE /\ copies' = copies \cup {CopyAdvice(src, <<"running_sum", start>>)}
                /\ advice' = st.grid
                /\ locals' = [chunks |-> st.chunks, widths |-> st.widths,
                              writes |-> st.writes]
                /\ IF st.panic \/ st.unwrap
                   THEN /\ result' = IF st.panic THEN "IndexPanic" ELSE "UnwrapPanic"
                        /\ pc' = "aborted"
                        /\ UNCHANGED <<selectors, constants, nextRow>>
                   ELSE IF \E r \in enabled : ~UsableRow(r)
                   \* Selector::enable fails and `?` returns the error
                   THEN /\ selectors' = [selectors EXCEPT !["decompose_selector"] =
                                           @ \cup {r \in enabled : UsableRow(r)}]
                        /\ result' = "Err"
                        /\ pc' = "aborted"
                        /\ UNCHANGED <<constants, nextRow>>
                   ELSE /\ selectors' = [selectors EXCEPT !["decompose_selector"] = @ \cup enabled]
                        /\ constants' = constants \cup {ConstrainedCell(start, st.offset)}
                        /\ nextRow' = start + last + 1
                        /\ result' = "Ok"
                        /\ pc' = "done"
  /\ UNCHANGED <<circuit, p, cfg, input, table, loads, failures>>

\* a slip: the inactive lookup defaults to the tag 0
DecomposeLookupInputZeroTag(grid, sels, row, lookup_bits) ==
  LET two_to_k == FromU64(Pow2(lookup_bits))
      value == FSub(CellIn(grid, "running_sum", row),
                    FMul(CellIn(grid, "running_sum", row + 1), two_to_k))
      lookup_selector == SelIn(sels, "decompose_selector", row)
  IN [value |-> FMul(lookup_selector, value),
      bits |-> FMul(lookup_selector, CellIn(grid, "c_i_bits", row + 1))]

\* the lookup DecomposeConfig::configure registers through
\* RangeCheckConfig::configure, evaluated at one row
DecomposeLookupInput(grid, sels, row, lookup_bits) ==
  LET two_to_k == FromU64(Pow2(lookup_bits))
      value == FSub(CellIn(grid, "running_sum", row),
                    FMul(CellIn(grid, "running_sum", row + 1), two_to_k))
      bits == CellIn(grid, "c_i_bits", row + 1)
      lookup_selector == SelIn(sels, "decompose_selector", row)
      not_selector == FSub(1, lookup_selector)
  IN [value |-> FMul(lookup_selector, value),
      bits |-> FAdd(FMul(not_selector, 1), FMul(lookup_selector, bits))]

TaggedZeroRow == [value |-> 0, bits |-> 0]

\* every row of the circuit, the first unused one standing for the rest
Rows == 0 .. nextRow

DecomposeFailures ==
  {Failure("Lookup", "decompose", 0, r) : r \in
     {r \in Rows : DecomposeLookupInput(advice, selectors, r, cfg.lookup_bits)
                     \notin TableSet(table, TaggedZeroRow)}}

\* ---------------------------------------------------------------- is-zero gadget

\* Value<F> - Value<F>
ValueSub(a, b) == IF a.known /\ b.known THEN Known(FSub(a.v, b.v)) ELSE Unknown

\* IsZeroChip::configure: is_zero_expression = 1 - value * value_inv
IsZeroExpression(value, value_inv) == FSub(1, FMul(value, value_inv))

\* a slip: the gate multiplies by the inverse cell instead of the value
IsZeroGateOnInverse(q_enable, value, value_inv) ==
  FMul(FMul(q_enable, value_inv), IsZeroExpression(value, value_inv))

\* IsZeroChip::configure, the gate "is zero": q_enable * value * is_zero_expression
IsZeroGate(q_enable, value, value_inv) ==
  FMul(FMul(q_enable, value), IsZeroExpression(value, value_inv))

\* a slip: the value itself is written where its inverse belongs
IsZeroAssignNoInverse(grid, value, row) == AssignAdvice(grid, "value_inv", row, value)

\* IsZeroChip::assign: value_inv = value.invert().unwrap_or_else(|| F::ZERO)
IsZeroAssign(grid, value, row) ==
  LET value_inv ==
        IF value.known
        THEN Known(IF Invert(value.v).some THEN Invert(value.v).v ELSE 0)
        ELSE Unknown
  IN AssignAdvice(grid, "value_inv", row, value_inv)

\* FnChip::assign: output = if a == b { c } else { a - b }
FnOutput(a, b, c) ==
  IF a.known /\ b.known
  THEN (IF a.v = b.v THEN c ELSE Known(FSub(a.v, b.v)))
  ELSE Unknown

\* FnChip::assign, called once by FnCircuit::synthesize
FnAssign ==
  /\ pc = "assign"
  /\ circuit = "is_zero"
  /\ LET start == nextRow
         g1 == AssignAdvice(advice, "a", start, input.a)
         g2 == AssignAdvice(g1, "b", start, input.b)
         g3 == AssignAdvice(g2, "c", start, input.c)
         g4 == IsZeroAssign(g3, ValueSub(input.a, input.b), start)
     IN /\ regions' = OpenRegion("function region")
        /\ selectors' = [selectors EXCEPT !["selector"] = @ \cup {start}]
        /\ advice' = AssignAdvice(g4, "output", start, FnOutput(input.a, input.b, input.c))
        /\ nextRow' = start + 1
  /\ result' = "Ok"
  /\ pc' = "done"
  /\ UNCHANGED <<circuit, p, cfg, input, table, loads, constants, copies, locals,
                 failures>>

\* a slip: the two branches are exchanged
FnGateSwapped(s, a, b, c, output, value_inv) ==
  LET a_equals_b == IsZeroExpression(FSub(a, b), value_inv)
  IN << FMul(FMul(s, a_equals_b), FSub(output, FSub(a, b))),
        FMul(s, FMul(FSub(1, a_equals_b), FSub(output, c))) >>

\* FnChip::configure: the two constraints of "if a == b {c} else {a - b}"
FnGate(s, a, b, c, output, value_inv) ==
  LET a_equals_b == IsZeroExpression(FSub(a, b), value_inv)
  IN << FMul(FMul(s, a_equals_b), FSub(output, c)),
        FMul(s, FMul(FSub(1, a_equals_b), FSub(output, FSub(a, b)))) >>

\* ---------------------------------------------------------------- range checks

\* a slip: the product runs over 0..range inclusive
RECURSIVE RangeFoldInclusive(_, _, _, _)
RangeFoldInclusive(expr, value, i, range) ==
  IF i > range THEN expr
  ELSE RangeFoldInclusive(FMul(expr, FSub(FromU64(i), value)), value, i + 1, range)

\* (0..range).fold(value, |expr, i| expr * (i - value)), from step i on
RECURSIVE RangeFold(_, _, _, _)
RangeFold(expr, value, i, range) ==
  IF i >= range THEN expr
  ELSE RangeFold(FMul(expr, FSub(FromU64(i), value)), value, i + 1, range)

\* the polynomial of the gate "Range check"
RangeCheckExpr(value, range) == RangeFold(value, value, 0, range)

\* ExpressionConfig::assign of range_check/expression_check.rs
ExpressionAssign ==
  /\ pc = "assign"
  /\ circuit = "expression"
  /\ regions' = OpenRegion("range check")
  /\ selectors' = [selectors EXCEPT !["selector"] = @ \cup {nextRow}]
  /\ advice' = AssignAdvice(advice, "value", nextRow, input.value)
  /\ nextRow' = nextRow + 1
  /\ result' = "Ok"
  /\ pc' = "done"
  /\ UNCHANGED <<circuit, p, cfg, input, table, loads, constants, copies, locals,
                 failures>>

\* RangeCheckTable::load of the untagged table
RECURSIVE UntaggedLoadLoop(_, _, _)
UntaggedLoadLoop(i, lookup_range, rows) ==
  IF i >= lookup_range THEN rows
  ELSE UntaggedLoadLoop(i + 1, lookup_range, Append(rows, [value |-> FromU64(i)]))

UntaggedTableRows(lookup_range) == UntaggedLoadLoop(0, lookup_range, << >>)

UntaggedZeroRow == [value |-> 0]

\* a slip: the lookup path enables the plain selector
UntaggedSelectorPlain(direct) == "selector"

\* the selector a path of ExpressionConfig::assign enables at offset 0
UntaggedSelector(direct) == IF direct THEN "selector" ELSE "lookup_selector"

\* which of the two assign calls of MyCircuit::synthesize is next
CallIndex == IF pc = "assign1" THEN 1 ELSE 2

\* range_check/lookup.rs: `if range < self.range`
UntaggedUsesDirect(range, in_gate_range) == range < in_gate_range

\* ExpressionConfig::assign(value, range) of range_check/lookup.rs
UntaggedAssign ==
  /\ circuit = "lookup"
  /\ pc \in {"assign1", "assign2"}
  /\ LET value == IF CallIndex = 1 THEN input.value ELSE input.larger_value
         range == input.ranges[CallIndex]
         direct == UntaggedUsesDirect(range, cfg.range)
     IN IF range > cfg.lookup_range
        THEN /\ result' = "AssertPanic"
             /\ pc' = "aborted"
             /\ UNCHANGED <<advice, selectors, nextRow, regions>>
        ELSE /\ regions' = OpenRegion(IF direct THEN "range check"
                                      ELSE "range check with lookup table")
             /\ selectors' = [selectors EXCEPT ![UntaggedSelector(direct)] = @ \cup {nextRow}]
             /\ advice' = AssignAdvice(advice, "value", nextRow, value)
             /\ nextRow' = nextRow + 1
             /\ pc' = IF CallIndex = 1 THEN "assign2" ELSE "load"
             /\ UNCHANGED result
  /\ UNCHANGED <<circuit, p, cfg, input, table, loads, constants, copies, locals,
                 failures>>

\* a slip: synthesize returns without loading the table
LoadUntaggedSkipped ==
  /\ pc = "load"
  /\ circuit = "lookup"
  /\ pc' = "done"
  /\ result' = "Ok"
  /\ UNCHANGED <<circuit, p, cfg, input, advice, selectors, table, loads, constants,
                 copies, nextRow, regions, locals, failures>>

\* RangeCheckTable::load (untagged), the last step of MyCircuit::synthesize
LoadUntagged ==
  /\ pc = "load"
  /\ circuit = "lookup"
  /\ table' = UntaggedTableRows(cfg.lookup_range)
  /\ loads' = loads + 1
  /\ pc' = "done"
  /\ result' = "Ok"
  /\ UNCHANGED <<circuit, p, cfg, input, advice, selectors, constants, copies,
                 nextRow, regions, locals, failures>>

\* a slip: the comparison of the untagged variant
TaggedUsesDirectStrict(range, in_gate_range) == range < in_gate_range

\* range_check/lookup_with_bits.rs: `if range <= self.range`
TaggedUsesDirect(range, in_gate_range) == range <= in_gate_range

\* RangeCheckConfig::assign(value, bits, range) of range_check/lookup_with_bits.rs
TaggedAssign ==
  /\ circuit = "tagged"
  /\ pc \in {"assign1", "assign2"}
  /\ LET value == IF CallIndex = 1 THEN input.value ELSE input.larger_value
         bits == IF CallIndex = 1 THEN Known(0) ELSE input.larger_value_bits
         range == input.ranges[CallIndex]
         direct == TaggedUsesDirect(range, cfg.range)
         g1 == AssignAdvice(advice, "value", nextRow, value)
     IN IF range > cfg.lookup_range
        THEN /\ result' = "AssertPanic"
             /\ pc' = "aborted"
             /\ UNCHANGED <<advice, selectors, nextRow, regions>>
        ELSE IF ~UsableRow(nextRow)
        \* Selector::enable fails, `?` leaves the closure and assign_region
        \* returns the error, which `?` in synthesize returns
        THEN /\ regions' = OpenRegion(IF direct THEN "range check"
                                      ELSE "range check with lookup table")
             /\ result' = "Err"
             /\ pc' = "aborted"
             /\ UNCHANGED <<advice, selectors, nextRow>>
        ELSE /\ regions' = OpenRegion(IF direct THEN "range check"
                                      ELSE "range check with lookup table")
             /\ selectors' = [selectors EXCEPT
                  ![IF direct THEN "selector" ELSE "lookup_selector"] = @ \cup {nextRow}]
             /\ advice' = IF direct THEN g1 ELSE AssignAdvice(g1, "bits", nextRow, bits)
             /\ nextRow' = nextRow + 1
             /\ pc' = IF CallIndex = 1 THEN "assign2" ELSE "load"
             /\ UNCHANGED result
  /\ UNCHANGED <<circuit, p, cfg, input, table, loads, constants, copies, locals,
                 failures>>

\* ---------------------------------------------------------------- Fibonacci in one column

\* Value<F> + Value<F>
ValueAdd(a, b) == IF a.known /\ b.known THEN Known(FAdd(a.v, b.v)) ELSE Unknown

\* FiboChip::configure, the gate "add": s * (a + b - c)
AddGate(s, a, b, c) == FMul(s, FSub(FAdd(a, b), c))

\* `for i in 2..10`: the offset the loop stops before
FiboRows == 10

\* `if i < 8`: the offset from which the loop enables the selector no more
FiboGateRows == 8

\* the loop of FiboChip::assign from offset i on: a and b are the two cells
\* assigned last
RECURSIVE FiboLoop(_, _, _)
FiboLoop(i, start, st) ==
  IF i >= FiboRows THEN st
  ELSE LET c_cell == ValueAdd(st.a, st.b)
       IN FiboLoop(i + 1, start,
            [a |-> st.b, b |-> c_cell,
             grid |-> AssignAdvice(st.grid, "advice", start + i, c_cell),
             enabled |-> IF i < FiboGateRows THEN st.enabled \cup {start + i}
                         ELSE st.enabled])

\* FiboChip::assign(first, second): the region "table"
FiboAssign ==
  /\ pc = "assign"
  /\ circuit = "fibo"
  /\ LET start == nextRow
         g0 == AssignAdvice(advice, "advice", start, input.first)
         g1 == AssignAdvice(g0, "advice", start + 1, input.second)
         st == FiboLoop(2, start, [a |-> input.first, b |-> input.second,
                                   grid |-> g1, enabled |-> {start}])
     IN /\ regions' = OpenRegion("table")
        /\ selectors' = [selectors EXCEPT !["selector"] = @ \cup st.enabled]
        /\ advice' = st.grid
        /\ nextRow' = start + FiboRows
  /\ pc' = "expose"
  /\ UNCHANGED <<circuit, p, cfg, input, table, loads, constants, copies, locals,
                 result, failures>>

\* FiboChip::expose_public(last_cell): the cell assign returned, the one it
\* assigned last, is constrained equal to row 0 of the instance column
FiboExposePublic ==
  /\ pc = "expose"
  /\ circuit = "fibo"
  /\ copies' = copies \cup {<< <<"advice", nextRow - 1>>, <<"instance", 0>> >>}
  /\ result' = "Ok"
  /\ pc' = "done"
  /\ UNCHANGED <<circuit, p, cfg, input, advice, selectors, table, loads,
                 constants, nextRow, regions, locals, failures>>

\* ---------------------------------------------------------------- the multiplication chain

\* Value<F> * Value<F>
ValueMul(a, b) == IF a.known /\ b.known THEN Known(FMul(a.v, b.v)) ELSE Unknown

\* a slip: the gate adds
MulGateAdds(s_mul, lhs, rhs, out) == FMul(s_mul, FSub(FAdd(lhs, rhs), out))

\* FieldChip::configure, the gate "mul": s_mul * (lhs * rhs - out)
MulGate(s_mul, lhs, rhs, out) == FMul(s_mul, FSub(FMul(lhs, rhs), out))

\* FieldChip::load_private, called for a and then for b
LoadPrivate ==
  /\ circuit = "simple_ex"
  /\ pc \in {"load_a", "load_b"}
  /\ regions' = OpenRegion("load private")
  /\ advice' = AssignAdvice(advice, "advice[0]", nextRow,
                            IF pc = "load_a" THEN input.a ELSE input.b)
  /\ nextRow' = nextRow + 1
  /\ pc' = IF pc = "load_a" THEN "load_b" ELSE "load_constant"
  /\ UNCHANGED <<circuit, p, cfg, input, selectors, table, loads, constants,
                 copies, locals, result, failures>>

\* FieldChip::load_constant: assign_advice_from_constant assigns the cell
\* and constrains it to the constant
LoadConstant ==
  /\ circuit = "simple_ex"
  /\ pc = "load_constant"
  /\ regions' = OpenRegion("load constant")
  /\ advice' = AssignAdvice(advice, "advice[0]", nextRow, Known(input.constant))
  /\ constants' = constants \cup
       {[col |-> "advice[0]", row |-> nextRow, value |-> input.constant]}
  /\ nextRow' = nextRow + 1
  /\ pc' = "mul_ab"
  /\ UNCHANGED <<circuit, p, cfg, input, selectors, table, loads, copies, locals,
                 result, failures>>

\* the cell a Number holds: the private inputs a and b, and the products
\* ab and abab returned by the two calls of mul
NumberCell(name) ==
  CASE name = "a" -> <<"advice[0]", regions[1].start>>
    [] name = "b" -> <<"advice[0]", regions[2].start>>
    [] name = "ab" -> <<"advice[0]", regions[4].start + 1>>
    [] name = "abab" -> <<"advice[0]", regions[5].start + 1>>

\* FieldChip::mul(a, b), called for (a, b) and then for (ab, ab)
Mul ==
  /\ circuit = "simple_ex"
  /\ pc \in {"mul_ab", "mul_abab"}
  /\ LET start == nextRow
         a == NumberCell(IF pc = "mul_ab" THEN "a" ELSE "ab")
         b == NumberCell(IF pc = "mul_ab" THEN "b" ELSE "ab")
         lhs == advice[a[1]][a[2]]
         rhs == advice[b[1]][b[2]]
         g0 == AssignAdvice(advice, "advice[0]", start, lhs)
         g1 == AssignAdvice(g0, "advice[1]", start, rhs)
     IN /\ regions' = OpenRegion("mut")
        /\ selectors' = [selectors EXCEPT !["s_mul"] = @ \cup {start}]
        /\ copies' = copies \cup {CopyAdvice(a, <<"advice[0]", start>>),
                                  CopyAdvice(b, <<"advice[1]", start>>)}
        /\ advice' = AssignAdvice(g1, "advice[0]", start + 1, ValueMul(lhs, rhs))
        /\ nextRow' = start + 2
  /\ pc' = IF pc = "mul_ab" THEN "mul_abab" ELSE "expose"
  /\ UNCHANGED <<circuit, p, cfg, input, table, loads, constants, locals, result,
                 failures>>

\* FieldChip::expose_public(abab, 0)
ExposePublic ==
  /\ circuit = "simple_ex"
  /\ pc = "expose"
  /\ copies' = copies \cup {<<NumberCell("abab"), <<"instance", 0>> >>}
  /\ result' = "Ok"
  /\ pc' = "done"
  /\ UNCHANGED <<circuit, p, cfg, input, advice, selectors, table, loads,
                 constants, nextRow, regions, locals, failures>>

\* ---------------------------------------------------------------- the verifier

\* the gate "Range check" at a row: selector * polynomial
RangeCheckGate(row, range) ==
  FMul(Sel("selector", row), RangeCheckExpr(Cell("value", row), range))

RangeGateFailures ==
  {Failure("ConstraintNotSatisfied", "Range check", 0, r) : r \in
     {r \in Rows : RangeCheckGate(r, cfg.range) # 0}}

\* the lookup of range_check/lookup.rs: (selector * value, table.value)
UntaggedLookupInputIn(grid, sels, row) ==
  [value |-> FMul(SelIn(sels, "lookup_selector", row), CellIn(grid, "value", row))]

UntaggedLookupInput(row) == UntaggedLookupInputIn(advice, selectors, row)

UntaggedFailures ==
  RangeGateFailures \cup
  {Failure("Lookup", "lookup", 0, r) : r \in
     {r \in Rows : UntaggedLookupInput(r) \notin TableSet(table, UntaggedZeroRow)}}

\* the lookup of range_check/lookup_with_bits.rs:
\* (selector * value, table.value), ((1 - selector) * 1 + selector * bits, table.bits);
\* first a slip: the bits cell is left out of the lookup
TaggedLookupInputNoBits(grid, sels, row) ==
  [value |-> FMul(SelIn(sels, "lookup_selector", row), CellIn(grid, "value", row)),
   bits |-> 1]

TaggedLookupInputIn(grid, sels, row) ==
  LET selector == SelIn(sels, "lookup_selector", row)
      not_selector == FSub(1, selector)
  IN [value |-> FMul(selector, CellIn(grid, "value", row)),
      bits |-> FAdd(FMul(not_selector, 1), FMul(selector, CellIn(grid, "bits", row)))]

TaggedLookupInput(row) == TaggedLookupInputIn(advice, selectors, row)

TaggedFailures ==
  RangeGateFailures \cup
  {Failure("Lookup", "lookup", 0, r) : r \in
     {r \in Rows : TaggedLookupInput(r) \notin TableSet(table, TaggedZeroRow)}}

\* the gates of the use_is_zero circuit at a row
IsZeroGateAt(row) ==
  IsZeroGate(Sel("selector", row), FSub(Cell("a", row), Cell("b", row)),
             Cell("value_inv", row))

FnGateAt(row) ==
  FnGate(Sel("selector", row), Cell("a", row), Cell("b", row), Cell("c", row),
         Cell("output", row), Cell("value_inv", row))

FnFailures ==
  {Failure("ConstraintNotSatisfied", "is zero", 0, r) : r \in
     {r \in Rows : IsZeroGateAt(r) # 0}}
  \cup
  {Failure("ConstraintNotSatisfied", "if a == b {c} else {a - b}", 0, r) : r \in
     {r \in Rows : FnGateAt(r)[1] # 0}}
  \cup
  {Failure("ConstraintNotSatisfied", "if a == b {c} else {a - b}", 1, r) : r \in
     {r \in Rows : FnGateAt(r)[2] # 0}}

\* the gate "add" at a row
AddGateAt(row) ==
  AddGate(Sel("selector", row), Cell("advice", row), Cell("advice", row + 1),
          Cell("advice", row + 2))

FiboFailures ==
  {Failure("ConstraintNotSatisfied", "add", 0, r) : r \in
     {r \in Rows : AddGateAt(r) # 0}}

\* the gate "mul" at a row
MulGateAt(row) ==
  MulGate(Sel("s_mul", row), Cell("advice[0]", row), Cell("advice[1]", row),
          Cell("advice[0]", row + 1))

MulFailures ==
  {Failure("ConstraintNotSatisfied", "mul", 0, r) : r \in
     {r \in Rows : MulGateAt(r) # 0}}

\* the value of a cell of the permutation: an advice cell, or a row of the
\* instance column, which holds the public inputs and zeros after them
PermutedCell(col, row) ==
  IF col = "instance"
  THEN IF row + 1 \in DOMAIN input.public_inputs THEN input.public_inputs[row + 1]
       ELSE 0
  ELSE Cell(col, row)

\* constrain_constant and copy constraints: the permutation argument
PermutationFailures ==
  {Failure("Permutation", "constant", 0, k.row) : k \in
     {k \in constants : Cell(k.col, k.row) # k.value}}
  \cup
  {Failure("Permutation", "copy", 0, e[2][2]) : e \in
     {e \in copies : PermutedCell(e[1][1], e[1][2]) # PermutedCell(e[2][1], e[2][2])}}

\* MockProver::verify
VerifyFailures ==
  PermutationFailures \cup
  (CASE circuit = "decompose" -> DecomposeFailures
     [] circuit = "expression" -> RangeGateFailures
     [] circuit = "lookup" -> UntaggedFailures
     [] circuit = "tagged" -> TaggedFailures
     [] circuit = "is_zero" -> FnFailures
     [] circuit = "fibo" -> FiboFailures
     [] circuit = "simple_ex" -> MulFailures)

\* every assigned cell holds a known value: a witness-generation pass
WitnessKnown ==
  \A col \in AdviceColumns : \A row \in DOMAIN advice[col] : advice[col][row].known

Verify ==
  /\ pc = "done"
  /\ result = "Ok"
  /\ WitnessKnown
  /\ failures' = VerifyFailures
  /\ pc' = "verified"
  /\ UNCHANGED <<circuit, p, cfg, input, advice, selectors, table, loads,
                 constants, copies, nextRow, regions, locals, result>>

\* ---------------------------------------------------------------- specifications

Values == {Known(x) : x \in Field}

EmptyState ==
  /\ advice = EmptyGrid
  /\ selectors = NoSelectors
  /\ table = << >>
  /\ loads = 0
  /\ constants = {}
  /\ copies = {}
  /\ nextRow = 0
  /\ regions = << >>
  /\ locals = NoLocals
  /\ result = "running"
  /\ failures = {}

\* RangeCheckCircuit<F, LOOKUP_BITS> { value, num_bits } after configure
InitDecompose ==
  /\ circuit = "decompose"
  /\ p \in DecomposeModuli
  /\ \E k \in 1 .. MaxLookupBits :
       /\ Pow2(k) < p
       /\ cfg = [lookup_bits |-> k, lookup_range |-> Pow2(k)]
  /\ input \in [value : Values \cup {Unknown}, num_bits : 1 .. ReprBits]
  /\ pc = "load"
  /\ EmptyState

NextDecompose == LoadTagged \/ AssignValueSomewhere \/ DecomposeAssign \/ Verify

SpecDecompose == InitDecompose /\ [][NextDecompose]_vars

\* the same circuit in a run whose usable rows are those of the table, or
\* one row short of it
InitDecomposeRows ==
  /\ circuit = "decompose"
  /\ p \in DecomposeModuli
  /\ \E k \in 1 .. MaxLookupBits, short \in 0 .. 1 :
       /\ Pow2(k) < p
       /\ cfg = [lookup_bits |-> k, lookup_range |-> Pow2(k),
                 usable_rows |-> Pow2(k) - short]
  /\ input \in [value : Values \cup {Unknown}, num_bits : 1 .. ReprBits]
  /\ pc = "load"
  /\ EmptyState

SpecDecomposeRows == InitDecomposeRows /\ [][NextDecompose]_vars

\* tests::test_range_check of range_check/decompose.rs:
\* RangeCheckCircuit::<Fp, 4> { value: 152, num_bits: 8 }
DecomposeTestLookupBits == 4

DecomposeTestValue == 152

DecomposeTestNumBits == 8

\* MyCircuit<F, RANGE> { value } of range_check/expression_check.rs
InitExpression ==
  /\ circuit = "expression"
  /\ p \in ExpressionModuli
  /\ \E range \in 1 .. MaxGateRange : cfg = [range |-> range]
  /\ input \in [value : Values \cup {Unknown}]
  /\ pc = "assign"
  /\ EmptyState

NextExpression == ExpressionAssign \/ Verify

SpecExpression == InitExpression /\ [][NextExpression]_vars

\* FnCircuit { a, b, c } of bin/use_is_zero.rs
InitIsZero ==
  /\ circuit = "is_zero"
  /\ p \in IsZeroModuli
  /\ cfg = [name |-> "FnConfig"]
  /\ input \in [a : Values, b : Values, c : Values]
                 \cup {[a |-> Unknown, b |-> Unknown, c |-> Unknown]}
  /\ pc = "assign"
  /\ EmptyState

NextIsZero == FnAssign \/ Verify

SpecIsZero == InitIsZero /\ [][NextIsZero]_vars

\* the range arguments of the two assign calls: MyCircuit::synthesize passes
\* RANGE and LOOKUP_RANGE; a caller of assign may pass any range
RangeArguments == [1 .. 2 -> 1 .. MaxRange]

\* MyCircuit<F, RANGE, LOOKUP_RANGE> { value, larger_value } of range_check/lookup.rs
InitLookup ==
  /\ circuit = "lookup"
  /\ p \in RangeModuli
  /\ \E range \in 1 .. MaxRange, lookup_range \in 1 .. MaxRange :
       cfg = [range |-> range, lookup_range |-> lookup_range]
  /\ input \in [value : Values, larger_value : Values, ranges : RangeArguments]
                 \cup [value : {Unknown}, larger_value : {Unknown}, ranges : RangeArguments]
  /\ pc = "assign1"
  /\ EmptyState

NextLookup == UntaggedAssign \/ LoadUntagged \/ Verify

SpecLookup == InitLookup /\ [][NextLookup]_vars

\* MyCircuit<F, RANGE, LOOKUP_RANGE> { value, larger_value, larger_value_bits }
\* of range_check/lookup_with_bits.rs
InitTagged ==
  /\ circuit = "tagged"
  /\ p \in RangeModuli
  /\ \E range \in 1 .. MaxRange, lookup_range \in 1 .. MaxRange :
       cfg = [range |-> range, lookup_range |-> lookup_range]
  /\ input \in [value : Values, larger_value : Values, larger_value_bits : Values,
                ranges : RangeArguments]
                 \cup [value : {Unknown}, larger_value : {Unknown},
                       larger_value_bits : {Unknown}, ranges : RangeArguments]
  /\ pc = "assign1"
  /\ EmptyState

NextTagged == TaggedAssign \/ LoadTagged \/ Verify

SpecTagged == InitTagged /\ [][NextTagged]_vars

\* tests::test_range_check of range_check/lookup_with_bits.rs: RANGE and
\* LOOKUP_RANGE of MyCircuit::<Fp, RANGE, LOOKUP_RANGE>, and its witness
TestRange == 8

TestLookupRange == 256

TestValue == 5

TestLargerValue == 152

TestLargerValueBits == 8

\* a prime field that holds every row of the test's table
TestModuli == {257}

\* the test's circuit; next to the test's own witness, the larger value at
\* the ends of the lookup range and every content of the bits cell
InitTaggedTest ==
  /\ circuit = "tagged"
  /\ p \in TestModuli
  /\ cfg = [range |-> TestRange, lookup_range |-> TestLookupRange]
  /\ input \in [value : {Known(TestValue)},
                larger_value : {Known(0), Known(TestLargerValue),
                                Known(TestLookupRange - 1), Known(TestLookupRange)},
                larger_value_bits : Values,
                ranges : {<<TestRange, TestLookupRange>>}]
  /\ pc = "assign1"
  /\ EmptyState

\* the tagged range check in a run that leaves between no row and every
\* row of the table usable
InitTaggedRows ==
  /\ circuit = "tagged"
  /\ p \in RangeModuli
  /\ \E range \in 1 .. MaxRange, lookup_range \in 1 .. MaxRange :
       \E usable_rows \in 0 .. lookup_range :
         cfg = [range |-> range, lookup_range |-> lookup_range,
                usable_rows |-> usable_rows]
  /\ input \in [value : Values, larger_value : Values, larger_value_bits : Values,
                ranges : RangeArguments]
                 \cup [value : {Unknown}, larger_value : {Unknown},
                       larger_value_bits : {Unknown}, ranges : RangeArguments]
  /\ pc = "assign1"
  /\ EmptyState

\* both synthesize functions that load the tagged table, in runs short of rows
InitRows == InitDecomposeRows \/ InitTaggedRows

NextRows == LoadTagged \/ AssignValueSomewhere \/ DecomposeAssign \/ TaggedAssign \/ Verify

SpecRows == InitRows /\ [][NextRows]_vars

\* both lookup range checks
InitRangeChecks == InitLookup \/ InitTagged \/ InitTaggedTest

NextRangeChecks == UntaggedAssign \/ LoadUntagged \/ TaggedAssign \/ LoadTagged \/ Verify

SpecRangeChecks == InitRangeChecks /\ [][NextRangeChecks]_vars

\* every circuit, synthesized and verified as the code does
Init ==
  \/ InitDecompose
  \/ InitExpression
  \/ InitIsZero
  \/ InitLookup
  \/ InitTagged
  \/ InitTaggedTest

Next ==
  \/ LoadTagged
  \/ AssignValueSomewhere
  \/ DecomposeAssign
  \/ FnAssign
  \/ ExpressionAssign
  \/ UntaggedAssign
  \/ LoadUntagged
  \/ TaggedAssign
  \/ Verify

Spec == Init /\ [][Next]_vars

\* ---------------------------------------------------------------- a forging prover

\* the cells a gadget writes itself (the rest are the circuit's inputs): a
\* prover is free to write any field element into them
ComputedCells ==
  CASE circuit = "decompose" ->
         {<<col, row>> : col \in {"running_sum", "c_i_bits"},
                         row \in regions[Len(regions)].start .. nextRow}
    [] circuit = "is_zero" ->
         {<<col, regions[Len(regions)].start>> : col \in {"value_inv", "output"}}
    \* every cell but first and second
    [] circuit = "fibo" ->
         {<<"advice", row>> : row \in (regions[1].start + 2) .. (nextRow - 1)}
    \* the cells of the two regions of mul
    [] circuit = "simple_ex" ->
         {<<col, row>> : col \in {"advice[0]", "advice[1]"},
                         row \in regions[4].start .. (nextRow - 1)}
    [] OTHER -> {}

\* the prover writes another value into a cell the gadget computed; the
\* constraint system (selectors, table, constants, copies) stays as synthesized
Tamper ==
  /\ pc = "done"
  /\ result = "Ok"
  /\ \E cell \in ComputedCells, v \in Field :
       /\ Assigned(cell[1], cell[2])
       /\ advice[cell[1]][cell[2]] # Known(v)
       /\ advice' = AssignAdvice(advice, cell[1], cell[2], Known(v))
  /\ UNCHANGED <<circuit, p, cfg, input, pc, selectors, table, loads, constants,
                 copies, nextRow, regions, locals, result, failures>>

\* the decomposition circuit over a small field, few chunks
InitForgeDecompose ==
  /\ circuit = "decompose"
  /\ p \in ForgeModuli
  /\ \E k \in 1 .. MaxLookupBits :
       /\ Pow2(k) < p
       /\ cfg = [lookup_bits |-> k, lookup_range |-> Pow2(k)]
  /\ input \in [value : Values, num_bits : 1 .. ReprBits]
  /\ input.num_bits \div cfg.lookup_bits <= MaxForgeChunks
  /\ pc = "load"
  /\ EmptyState

\* the use_is_zero circuit over a small field
InitForgeIsZero ==
  /\ circuit = "is_zero"
  /\ p \in ForgeModuli
  /\ cfg = [name |-> "FnConfig"]
  /\ input \in [a : Values, b : Values, c : Values]
  /\ pc = "assign"
  /\ EmptyState

InitForge == InitForgeDecompose \/ InitForgeIsZero

NextForge == NextDecompose \/ FnAssign \/ Tamper

SpecForge == InitForge /\ [][NextForge]_vars

\* FiboCircuit { first, second } of bin/fibo_one_column.rs, run with one
\* public input
InitFibo ==
  /\ circuit = "fibo"
  /\ p \in ChainModuli
  /\ cfg = [name |-> "FiboConfig"]
  /\ input \in [first : Values, second : Values, public_inputs : [1 .. 1 -> Field]]
  /\ pc = "assign"
  /\ EmptyState

\* MyCircuit { a, b, constant } of bin/simple_ex.rs, run with one public input
InitSimple ==
  /\ circuit = "simple_ex"
  /\ p \in ChainModuli
  /\ cfg = [name |-> "FieldConfig"]
  /\ input \in [a : Values, b : Values, constant : Field,
                public_inputs : [1 .. 1 -> Field]]
  /\ pc = "load_a"
  /\ EmptyState

InitChains == InitFibo \/ InitSimple

NextChains ==
  \/ FiboAssign
  \/ FiboExposePublic
  \/ LoadPrivate
  \/ LoadConstant
  \/ Mul
  \/ ExposePublic
  \/ Verify
  \/ Tamper

SpecChains == InitChains /\ [][NextChains]_vars

\* ---------------------------------------------------------------- decomposition: properties

\* the decomposition region: its start row, the number of chunks asked for
DecomposeStart == regions[Len(regions)].start

DecomposeReturned == circuit = "decompose" /\ pc \in {"done", "aborted", "verified"}

\* sum_i c_i * 2^(i*K), over the integers
RECURSIVE Recompose(_, _)
Recompose(chunks, lookup_bits) ==
  IF chunks = << >> THEN 0
  ELSE chunks[1] + Pow2(lookup_bits) * Recompose(Tail(chunks), lookup_bits)

\* x is known, num_bits is a multiple of K, and x < 2^num_bits
DecomposeInRange ==
  /\ circuit = "decompose"
  /\ input.value.known
  /\ input.num_bits % cfg.lookup_bits = 0
  /\ input.value.v < Pow2(input.num_bits)

\* x is known, num_bits is a multiple of K, and x >= 2^num_bits
DecomposeOutOfRange ==
  /\ circuit = "decompose"
  /\ input.value.known
  /\ input.num_bits % cfg.lookup_bits = 0
  /\ input.value.v >= Pow2(input.num_bits)

\* the pair row i of the decomposition region hands to the lookup
ChunkPair(i) ==
  [value |-> FSub(Cell("running_sum", DecomposeStart + i),
                  FMul(FromU64(Pow2(cfg.lookup_bits)),
                       Cell("running_sum", DecomposeStart + i + 1))),
   bits |-> Cell("c_i_bits", DecomposeStart + i + 1)]

\* C1: for x < 2^num_bits with num_bits a multiple of K, assign returns Ok
\* with C = num_bits/K chunks, each in [0, 2^K), that recompose to x; every
\* row 0..C-1 is enabled and its pair (z_i - 2^K z_{i+1}, width at i+1) is a
\* row of the tagged table; z_C = 0; and verification reports no failure.
C1_RoundTrip ==
  (DecomposeInRange /\ DecomposeReturned) =>
    LET C == input.num_bits \div cfg.lookup_bits
    IN /\ result = "Ok"
       /\ Len(locals.chunks) = C
       /\ \A i \in 1 .. C : locals.chunks[i] \in 0 .. (Pow2(cfg.lookup_bits) - 1)
       /\ Recompose(locals.chunks, cfg.lookup_bits) = input.value.v
       /\ \A i \in 0 .. (C - 1) :
            /\ (DecomposeStart + i) \in selectors["decompose_selector"]
            /\ ChunkPair(i) \in TableSet(table, TaggedZeroRow)
            /\ ChunkPair(i).value = locals.chunks[i + 1]
       /\ Assigned("running_sum", DecomposeStart + C)
       /\ Cell("running_sum", DecomposeStart + C) = 0
       /\ (pc = "verified" => failures = {})

\* a value of several chunks was decomposed and verified
C1_Witness ==
  /\ DecomposeInRange
  /\ pc = "verified"
  /\ failures = {}
  /\ Len(locals.chunks) >= 2
  /\ input.value.v >= Pow2(cfg.lookup_bits)
  /\ locals.chunks[1] # 0

\* C2: for x >= 2^num_bits (num_bits a multiple of K) the cells assign
\* writes violate the constraints: the constrained cell z_C is not zero and
\* verification reports a failure.
C2_OutOfRangeRejected ==
  (DecomposeOutOfRange /\ DecomposeReturned) =>
    /\ result = "Ok"
    /\ \E k \in constants : Cell(k.col, k.row) # k.value
    /\ (pc = "verified" => failures # {})

C2_Witness ==
  /\ DecomposeOutOfRange
  /\ pc = "verified"
  /\ Failure("Permutation", "constant", 0,
             DecomposeStart + (input.num_bits \div cfg.lookup_bits)) \in failures

\* C4: when num_bits is not a multiple of K, assign on a known value
\* completes without fault after ceil(num_bits/K) chunks, the last one
\* holding the remaining num_bits mod K bits.
C4_PartialFinalChunk ==
  (/\ DecomposeReturned
   /\ input.value.known
   /\ input.num_bits % cfg.lookup_bits # 0) =>
    /\ result = "Ok"
    /\ Len(locals.chunks) = (input.num_bits + cfg.lookup_bits - 1) \div cfg.lookup_bits
    /\ locals.chunks[Len(locals.chunks)] < Pow2(input.num_bits % cfg.lookup_bits)

\* C3: any content of the running-sum and width cells that satisfies the
\* lookup on rows 0..C-1 and the constraint z_C = 0 has z_0 in [0, 2^(C*K)),
\* with C*K = num_bits when K divides num_bits.
C3_RangeConstrained ==
  (/\ circuit = "decompose"
   /\ pc \in {"done", "verified"}
   /\ input.num_bits % cfg.lookup_bits = 0
   /\ \A i \in 0 .. ((input.num_bits \div cfg.lookup_bits) - 1) :
        ChunkPair(i) \in TableSet(table, TaggedZeroRow)
   /\ Cell("running_sum", DecomposeStart + (input.num_bits \div cfg.lookup_bits)) = 0)
  => Cell("running_sum", DecomposeStart) < Pow2(input.num_bits)

\* the constraint system checked on the cells ties these conditions to the
\* verifier: no reported failure means z_0 < 2^num_bits
C3_VerifiedInRange ==
  (/\ circuit = "decompose"
   /\ pc = "verified"
   /\ input.num_bits % cfg.lookup_bits = 0
   /\ failures = {})
  => Cell("running_sum", DecomposeStart) < Pow2(input.num_bits)

C3_Sound == C3_RangeConstrained /\ C3_VerifiedInRange

\* verification accepted a running sum at the top of the range, in a field
\* larger than the range
C3_Witness ==
  /\ circuit = "decompose"
  /\ pc = "verified"
  /\ failures = {}
  /\ input.num_bits % cfg.lookup_bits = 0
  /\ Pow2(input.num_bits) < p
  /\ Cell("running_sum", DecomposeStart) = Pow2(input.num_bits) - 1
  /\ Len(locals.chunks) = MaxForgeChunks

\* ---------------------------------------------------------------- range checks: properties

\* the row the polynomial range-check circuit assigns
ExpressionRow == regions[1].start

\* C5: at the enabled row the gate "Range check" evaluates to zero exactly
\* when the value is one of 0..R-1; every such value verifies, and the value
\* R fails with the single failure: constraint not satisfied, gate
\* "Range check", region "range check", offset 0.
C5_RangeGate ==
  (circuit = "expression" /\ pc \in {"done", "verified"} /\ input.value.known) =>
    LET v == Cell("value", ExpressionRow)
        R == cfg.range
    IN /\ v = input.value.v
       /\ ExpressionRow \in selectors["selector"]
       /\ (RangeCheckGate(ExpressionRow, R) = 0) <=> (v \in 0 .. (R - 1))
       /\ (pc = "verified" /\ v \in 0 .. (R - 1)) => failures = {}
       /\ (pc = "verified" /\ v = R) =>
            failures = {[kind |-> "ConstraintNotSatisfied", name |-> "Range check",
                         index |-> 0, region |-> <<0, "range check">>, offset |-> 0]}

\* the test's case: RANGE = 8 and the value 8
C5_Witness ==
  /\ circuit = "expression"
  /\ pc = "verified"
  /\ cfg.range = 8
  /\ input.value = Known(8)
  /\ Cardinality(failures) = 1

\* the row the use_is_zero circuit assigns, and the expression a - b on it
FnRow == regions[1].start

FnValue == FSub(Cell("a", FnRow), Cell("b", FnRow))

\* C6: IsZeroChip::assign returns Ok and writes value_inv = 1/value when
\* value # 0 and 0 when value = 0; with it is_zero_expr = 1 - value*value_inv
\* is 1 iff value = 0 and 0 otherwise, and the gate value * is_zero_expr = 0
\* holds.
C6_IsZeroAssign ==
  (/\ circuit = "is_zero"
   /\ pc \in {"done", "verified"}
   /\ input.a.known /\ input.b.known) =>
    LET value == FSub(input.a.v, input.b.v)
        value_inv == Cell("value_inv", FnRow)
    IN /\ result = "Ok"
       /\ Assigned("value_inv", FnRow)
       /\ advice["value_inv"][FnRow].known
       /\ value = 0 => value_inv = 0
       /\ value # 0 => FMul(value, value_inv) = 1
       /\ IsZeroExpression(value, value_inv) = (IF value = 0 THEN 1 ELSE 0)
       /\ IsZeroGate(1, value, value_inv) = 0
       /\ pc = "verified" => \A f \in failures : f.name # "is zero"

\* the inversion of zero: a = b, and the fallback zero was written
C6_Witness ==
  /\ circuit = "is_zero"
  /\ pc = "verified"
  /\ input.a.known /\ input.b.known
  /\ input.a.v = input.b.v
  /\ input.a.v # 0
  /\ advice["value_inv"][FnRow] = Known(0)
  /\ failures = {}

\* C7: whatever the value_inv cell holds, if the gate "is zero" holds at the
\* enabled row then is_zero_expr is 1 when the expression is zero and 0 when
\* it is not.
C7_IsZeroSound ==
  (/\ circuit = "is_zero"
   /\ pc \in {"done", "verified"}
   /\ FnRow \in selectors["selector"]
   /\ IsZeroGateAt(FnRow) = 0) =>
    IsZeroExpression(FnValue, Cell("value_inv", FnRow)) = (IF FnValue = 0 THEN 1 ELSE 0)

\* the verifier's side of it: no failure of the gate "is zero" reported
C7_VerifiedIndicator ==
  (/\ circuit = "is_zero"
   /\ pc = "verified"
   /\ \A f \in failures : f.name # "is zero") =>
    IsZeroExpression(FnValue, Cell("value_inv", FnRow)) = (IF FnValue = 0 THEN 1 ELSE 0)

C7_Indicator == C7_IsZeroSound /\ C7_VerifiedIndicator

\* a prover wrote a value_inv of its own next to a zero expression and the
\* gate held
C7_Witness ==
  /\ circuit = "is_zero"
  /\ pc = "verified"
  /\ FnValue = 0
  /\ Cell("value_inv", FnRow) = 3
  /\ \A f \in failures : f.name # "is zero"

\* number of bits in the binary representation of i, at least one
BinaryDigits(i) ==
  IF i = 0 THEN 1 ELSE CHOOSE k \in 1 .. (i + 1) : Pow2(k - 1) <= i /\ i < Pow2(k)

\* ceil(log2(n)) for n >= 1
CeilLog2(n) == CHOOSE k \in 0 .. n : Pow2(k) >= n /\ (k = 0 \/ Pow2(k - 1) < n)

TaggedTable == circuit \in {"decompose", "tagged"}

\* C8: after load exactly the rows 0..R-1 are assigned and row i holds the
\* value i; in the tagged table row i also holds the number of bits of i, at
\* least 1, equal to ceil(log2(i+1)) clamped to 1: row 0 = (0,1),
\* row 7 = (7,3), row 8 = (8,4).
C8_TableRows ==
  (loads > 0) =>
    /\ DOMAIN table = 1 .. cfg.lookup_range
    /\ \A i \in 0 .. (cfg.lookup_range - 1) :
         /\ table[i + 1].value = i
         /\ TaggedTable =>
              /\ table[i + 1].bits = BinaryDigits(i)
              /\ table[i + 1].bits >= 1
              /\ table[i + 1].bits = (IF i = 0 THEN 1 ELSE CeilLog2(i + 1))
    /\ TaggedTable => table[1] = [value |-> 0, bits |-> 1]
    /\ (TaggedTable /\ cfg.lookup_range > 8) =>
         /\ table[8] = [value |-> 7, bits |-> 3]
         /\ table[9] = [value |-> 8, bits |-> 4]

\* a tagged table of sixteen rows was loaded
C8_Witness ==
  /\ loads = 1
  /\ TaggedTable
  /\ cfg.lookup_range = 16
  /\ table[8] = [value |-> 7, bits |-> 3]
  /\ table[9] = [value |-> 8, bits |-> 4]

\* C9: in the untagged range check, assign(value, range) with
\* range <= lookup_range enables the plain selector when range <= the
\* in-gate range, equality included, and the lookup selector otherwise.
C9_UntaggedDispatch ==
  (circuit = "lookup") =>
    \A i \in DOMAIN regions :
      IF input.ranges[i] <= cfg.range
      THEN /\ regions[i].start \in selectors["selector"]
           /\ regions[i].start \notin selectors["lookup_selector"]
      ELSE /\ regions[i].start \in selectors["lookup_selector"]
           /\ regions[i].start \notin selectors["selector"]

\* C10: in the tagged range check, assign(value, bits, range) with
\* range <= lookup_range enables the plain selector when range <= the
\* in-gate range, equality included, and otherwise enables the lookup
\* selector and writes the bits cell.
C10_TaggedDispatch ==
  (circuit = "tagged") =>
    /\ Len(regions) = (CASE pc = "assign1" -> 0
                         [] pc = "assign2" -> 1
                         [] pc = "aborted" -> Len(regions)
                         [] OTHER -> 2)
    /\ \A i \in DOMAIN regions :
         /\ input.ranges[i] <= cfg.lookup_range
         /\ Assigned("value", regions[i].start)
         /\ IF input.ranges[i] <= cfg.range
            THEN /\ regions[i].start \in selectors["selector"]
                 /\ regions[i].start \notin selectors["lookup_selector"]
                 /\ regions[i].name = "range check"
            ELSE /\ regions[i].start \in selectors["lookup_selector"]
                 /\ regions[i].start \notin selectors["selector"]
                 /\ Assigned("bits", regions[i].start)
                 /\ regions[i].name = "range check with lookup table"

\* one call at range = the in-gate range took the direct path, one above it
\* took the lookup path
C10_Witness ==
  /\ circuit = "tagged"
  /\ pc = "done"
  /\ input.ranges[1] = cfg.range
  /\ regions[1].start \in selectors["selector"]
  /\ input.ranges[2] > cfg.range
  /\ regions[2].start \in selectors["lookup_selector"]
  /\ Assigned("bits", regions[2].start)

\* ---------------------------------------------------------------- range checks: errors and frames

\* a range-check circuit (either variant) whose assign refused its range
RangeCheckRefused == circuit \in {"lookup", "tagged"} /\ pc = "aborted"

\* the cells and selectors the calls before the refused one left behind
RefusedGridUntouched ==
  /\ \A col \in AdviceColumns : DOMAIN advice[col] \subseteq 0 .. (Len(regions) - 1)
  /\ \A s \in SelectorNames : selectors[s] \subseteq 0 .. (Len(regions) - 1)
  /\ nextRow = Len(regions)

\* C11: in both range-check variants assign(.., range) with
\* range > lookup_range returns a configuration error (Err) to its caller,
\* and it does so before assigning a cell or enabling a selector.
C11_RefusedWithError ==
  RangeCheckRefused =>
    /\ input.ranges[Len(regions) + 1] > cfg.lookup_range
    /\ result = "Err"
    /\ RefusedGridUntouched

\* ---------------------------------------------------------------- lookups: properties

\* a lookup range check whose table is loaded
LookupLoaded == circuit \in {"lookup", "tagged"} /\ loads = 1

\* C12: on a row where the lookup selector is 1, with the table loaded for
\* lookup_range R, the untagged lookup is satisfied iff the value is in
\* [0, R); the tagged lookup is satisfied iff the value is in [0, R) and the
\* bits cell equals the table's tag for that value; the verifier reports a
\* lookup failure at the row exactly otherwise.  Value 152 with bits 8 is
\* accepted for R = 256, and with any other bits it is not.
C12_LookupMembership ==
  LookupLoaded =>
    \A r \in selectors["lookup_selector"] :
      LET v == Cell("value", r)
          R == cfg.lookup_range
          satisfied ==
            IF circuit = "lookup"
            THEN UntaggedLookupInput(r) \in TableSet(table, UntaggedZeroRow)
            ELSE TaggedLookupInput(r) \in TableSet(table, TaggedZeroRow)
          expected ==
            IF circuit = "lookup"
            THEN v \in 0 .. (R - 1)
            ELSE v \in 0 .. (R - 1) /\ Cell("bits", r) = table[v + 1].bits
      IN /\ satisfied <=> expected
         /\ pc = "verified" =>
              (Failure("Lookup", "lookup", 0, r) \in failures <=> ~expected)
         /\ (circuit = "tagged" /\ R = TestLookupRange /\ v = TestLargerValue) =>
              (satisfied <=> Cell("bits", r) = TestLargerValueBits)

\* the test's witness was verified: 152 with bits 8 against 256 rows
C12_Witness ==
  /\ circuit = "tagged"
  /\ pc = "verified"
  /\ cfg.lookup_range = TestLookupRange
  /\ regions[2].start \in selectors["lookup_selector"]
  /\ Cell("value", regions[2].start) = TestLargerValue
  /\ Cell("bits", regions[2].start) = TestLargerValueBits
  /\ failures = {}

\* contents a cell of an inactive row may hold
GarbageValues == {0, 1, p \div 2, p - 1}

\* the grid with other contents in the cells the lookup at a row reads
Garbled(row, v, b) ==
  CASE circuit = "decompose" ->
         AssignAdvice(AssignAdvice(AssignAdvice(advice, "running_sum", row, Known(v)),
                                   "running_sum", row + 1, Known(b)),
                      "c_i_bits", row + 1, Known(v))
    [] OTHER ->
         AssignAdvice(AssignAdvice(advice, "value", row, Known(v)), "bits", row, Known(b))

\* the tuple the circuit's lookup reads at a row of a grid
LookupInputIn(grid, row) ==
  CASE circuit = "decompose" ->
         DecomposeLookupInput(grid, selectors, row, cfg.lookup_bits)
    [] circuit = "lookup" -> UntaggedLookupInputIn(grid, selectors, row)
    [] circuit = "tagged" -> TaggedLookupInputIn(grid, selectors, row)

LookupSelector ==
  IF circuit = "decompose" THEN "decompose_selector" ELSE "lookup_selector"

LookupName == IF circuit = "decompose" THEN "decompose" ELSE "lookup"

\* C13: on every row where the lookup selector is 0 the lookup input is (0)
\* for the untagged check and (0, 1) for the tagged check, whatever the
\* value and bits cells hold; it equals row 0 of a loaded table, and the
\* verifier reports no lookup failure for the row.
C13_InactiveRows ==
  (circuit \in {"decompose", "lookup", "tagged"}) =>
    \A r \in Rows \ selectors[LookupSelector] :
      LET zero == IF circuit = "lookup" THEN [value |-> 0]
                  ELSE [value |-> 0, bits |-> 1]
      IN /\ LookupInputIn(advice, r) = zero
         /\ \A v \in GarbageValues, b \in GarbageValues :
              LookupInputIn(Garbled(r, v, b), r) = zero
         /\ loads = 1 => table[1] = zero
         /\ pc = "verified" => Failure("Lookup", LookupName, 0, r) \notin failures

\* a direct-path row of the tagged check held a nonzero value beside an
\* unassigned bits cell, and the loaded table's lookup passed on it
C13_Witness ==
  /\ circuit = "tagged"
  /\ pc = "verified"
  /\ regions[1].start \notin selectors["lookup_selector"]
  /\ Cell("value", regions[1].start) > 1
  /\ ~Assigned("bits", regions[1].start)
  /\ \A f \in failures : f.kind # "Lookup"

\* ---------------------------------------------------------------- decomposition: widths and selectors

\* the K bits of a chunk value, as chunks(K) hands a full chunk to the loop
ChunkOf(c) == Take(ToLeBits(c), cfg.lookup_bits)

\* the width DecomposeConfig::assign computes for a full chunk of value c
WidthOf(c) ==
  FromU64(ChunkBits(ChunkOf(c), ZeroBits(ChunkOf(c), cfg.lookup_bits).n))

\* C14: for every K-bit chunk value c in [0, 2^K) the width assign computes
\* (chunk length minus the zero bits counted down from the top bit, 1 when
\* that is 0) equals the bits tag load stores in row c of the tagged table;
\* an all-zero chunk gets width 1 and its pair (0, 1) is row 0 of the table,
\* and every chunk assign wrote is paired with its row's tag.
C14_WidthMatchesTag ==
  (circuit = "decompose" /\ loads = 1) =>
    /\ \A c \in 0 .. (Pow2(cfg.lookup_bits) - 1) :
         /\ ~ZeroBits(ChunkOf(c), cfg.lookup_bits).panic
         /\ BitsToU64LittleEndian(ChunkOf(c)) = c
         /\ table[c + 1].value = c
         /\ WidthOf(c) = table[c + 1].bits
    /\ WidthOf(0) = 1
    /\ [value |-> 0, bits |-> 1] \in TableSet(table, TaggedZeroRow)
    /\ [value |-> 0, bits |-> 0] \notin TableSet(table, TaggedZeroRow)
    /\ \A i \in DOMAIN locals.chunks :
         /\ locals.widths[i] = table[locals.chunks[i] + 1].bits
         /\ ChunkPair(i - 1) = [value |-> locals.chunks[i], bits |-> locals.widths[i]]
         /\ ChunkPair(i - 1) \in TableSet(table, TaggedZeroRow)

\* a value whose final chunk is zero was decomposed and verified
C14_Witness ==
  /\ circuit = "decompose"
  /\ pc = "verified"
  /\ failures = {}
  /\ Len(locals.chunks) >= 2
  /\ locals.chunks[1] # 0
  /\ locals.chunks[Len(locals.chunks)] = 0
  /\ locals.widths[Len(locals.chunks)] = 1
  /\ Sel("decompose_selector", DecomposeStart + Len(locals.chunks) - 1) = 1

\* C15: DecomposeConfig::assign enables the decomposition selector at exactly
\* the offsets 0..C-1 for C = ceil(num_bits/K) chunks, and not at the offset
\* C of z_C, also when num_bits is not a multiple of K.
C15_SelectorOffsets ==
  (circuit = "decompose" /\ pc \in {"done", "aborted", "verified"}) =>
    LET C == (input.num_bits + cfg.lookup_bits - 1) \div cfg.lookup_bits
    IN selectors["decompose_selector"] = {DecomposeStart + i : i \in 0 .. (C - 1)}

\* C16: decomposing 152 with K = 4 and num_bits = 8 yields the chunks [8, 9],
\* the widths [4, 4], the running sum z_0 = 152, z_1 = 9, z_2 = 0, and the
\* assignment satisfies every constraint.
C16_TestDecomposition ==
  (/\ circuit = "decompose"
   /\ cfg.lookup_bits = DecomposeTestLookupBits
   /\ input.value = Known(DecomposeTestValue)
   /\ input.num_bits = DecomposeTestNumBits
   /\ DecomposeReturned) =>
    /\ result = "Ok"
    /\ locals.chunks = <<8, 9>>
    /\ locals.widths = <<4, 4>>
    /\ advice["running_sum"][DecomposeStart] = Known(152)
    /\ advice["running_sum"][DecomposeStart + 1] = Known(9)
    /\ advice["running_sum"][DecomposeStart + 2] = Known(0)
    /\ advice["c_i_bits"][DecomposeStart + 1] = Known(4)
    /\ advice["c_i_bits"][DecomposeStart + 2] = Known(4)
    /\ VerifyFailures = {}
    /\ pc = "verified" => failures = {}

\* the test's circuit was synthesized and verified
C16_Witness ==
  /\ circuit = "decompose"
  /\ cfg.lookup_bits = DecomposeTestLookupBits
  /\ input.value = Known(DecomposeTestValue)
  /\ input.num_bits = DecomposeTestNumBits
  /\ pc = "verified"
  /\ failures = {}

\* ---------------------------------------------------------------- the table's load

UsesTable == circuit \in {"decompose", "lookup", "tagged"}

DecomposeWriteFailed ==
  /\ circuit = "decompose"
  /\ pc = "aborted"
  /\ Len(regions) = 2
  /\ input.value.known
  /\ input.num_bits % cfg.lookup_bits = 0
  /\ Assigned("running_sum", DecomposeStart)

\* C18: when writing a running-sum cell or a width cell fails inside
\* DecomposeConfig::assign, assign returns the failure to its caller as Err;
\* it is not raised as a runtime fault.
C18_WriteErrorReturned == DecomposeWriteFailed => result = "Err"

\* ---------------------------------------------------------------- assign: frames and copies

\* the selectors enabled at a row
EnabledAt(row) == {s \in SelectorNames : row \in selectors[s]}

\* the advice columns with a cell assigned at a row
AssignedAt(row) == {col \in AdviceColumns : Assigned(col, row)}

\* C19: in the untagged range check each call of assign, on the direct path
\* as on the lookup path, writes the witnessed value to the value column at
\* offset 0 of its region and enables one selector at that offset: the plain
\* selector and not the lookup selector on the direct path, the lookup
\* selector and not the plain one on the lookup path.
C19_UntaggedFrame ==
  (circuit = "lookup") =>
    \A i \in DOMAIN regions :
      LET row == regions[i].start
          witnessed == IF i = 1 THEN input.value ELSE input.larger_value
      IN /\ row = i - 1
         /\ AssignedAt(row) = {"value"}
         /\ advice["value"][row] = witnessed
         /\ Cardinality(EnabledAt(row)) = 1
         /\ regions[i].name = "range check" => EnabledAt(row) = {"selector"}
         /\ regions[i].name = "range check with lookup table" =>
              EnabledAt(row) = {"lookup_selector"}
         /\ regions[i].name \in {"range check", "range check with lookup table"}

\* one call took the direct path and the next the lookup path, and both
\* values sit in the value column
C19_Witness ==
  /\ circuit = "lookup"
  /\ pc = "done"
  /\ regions[1].name = "range check"
  /\ regions[2].name = "range check with lookup table"
  /\ EnabledAt(0) = {"selector"}
  /\ EnabledAt(1) = {"lookup_selector"}
  /\ advice["value"][0] = input.value
  /\ advice["value"][1] = input.larger_value
  /\ input.value # input.larger_value
  /\ input.value.known

\* the source cell DecomposeConfig::assign was handed, and its cell at offset 0
SourceCell == <<"running_sum", regions[1].start>>

RunningSumStart == <<"running_sum", DecomposeStart>>

\* C20: DecomposeConfig::assign copy-constrains the running-sum cell at
\* offset 0 to the caller's source cell: an assignment with z_0 different
\* from the source is reported by the verifier, so in a satisfying assignment
\* z_0 equals the source value and the range constraint binds the source.
C20_CopyConstrained ==
  (circuit = "decompose" /\ pc \in {"done", "verified"}) =>
    /\ <<SourceCell, RunningSumStart>> \in copies
    /\ SourceCell # RunningSumStart
    /\ advice[SourceCell[1]][SourceCell[2]] = input.value
    /\ pc = "verified" =>
         /\ (Cell("running_sum", DecomposeStart) # Cell("running_sum", SourceCell[2]))
              <=> (Failure("Permutation", "copy", 0, DecomposeStart) \in failures)
         /\ failures = {} => Cell("running_sum", DecomposeStart) = input.value.v
         /\ (failures = {} /\ input.num_bits % cfg.lookup_bits = 0) =>
              input.value.v < Pow2(input.num_bits)

\* a prover replaced z_0 by an in-range value other than the source, and the
\* verifier reported the broken copy
C20_Witness ==
  /\ circuit = "decompose"
  /\ pc = "verified"
  /\ input.num_bits % cfg.lookup_bits = 0
  /\ Cell("running_sum", DecomposeStart) # input.value.v
  /\ Cell("running_sum", DecomposeStart) < Pow2(input.num_bits)
  /\ failures = {Failure("Permutation", "copy", 0, DecomposeStart)}

\* ---------------------------------------------------------------- decomposition: writes and shape

\* the (column, offset) pairs of the cells DecomposeConfig::assign wrote
WrittenCells == {locals.writes[i] : i \in DOMAIN locals.writes}

\* C21: with a known value and num_bits a multiple of K, assign writes the
\* running-sum column at exactly the offsets 0..C and the width column at
\* exactly the offsets 1..C (C = num_bits/K), every cell once: no cell is
\* assigned a second time.
C21_WrittenOnce ==
  (DecomposeInRange \/ DecomposeOutOfRange) /\ DecomposeReturned =>
    LET C == input.num_bits \div cfg.lookup_bits
    IN /\ WrittenCells = {<<"running_sum", o>> : o \in 0 .. C}
                           \cup {<<"c_i_bits", o>> : o \in 1 .. C}
       /\ Len(locals.writes) = Cardinality(WrittenCells)
       /\ \A i, j \in DOMAIN locals.writes : locals.writes[i] = locals.writes[j] => i = j
       /\ \A o \in 0 .. C : Assigned("running_sum", DecomposeStart + o)
       /\ \A o \in 1 .. C : Assigned("c_i_bits", DecomposeStart + o)
       /\ ~Assigned("c_i_bits", DecomposeStart)
       /\ ~Assigned("running_sum", DecomposeStart + C + 1)
       /\ ~Assigned("c_i_bits", DecomposeStart + C + 1)

\* a decomposition of three chunks or more returned
C21_Witness ==
  /\ DecomposeInRange
  /\ pc = "done"
  /\ Len(locals.chunks) >= 3
  /\ Len(locals.writes) = 2 * Len(locals.chunks) + 1

\* the constraints DecomposeConfig::assign registered, relative to its region:
\* the offsets with the lookup selector and the offsets constrained to zero
DecomposeShape ==
  [enabled |-> {r - DecomposeStart : r \in selectors["decompose_selector"]},
   zero |-> {k.row - DecomposeStart : k \in {k \in constants : k.value = 0}}]

\* the shape of a decomposition of C chunks: lookups at 0..C-1, z_C = 0
ShapeOf(C) == [enabled |-> 0 .. (C - 1), zero |-> {C}]

\* C22: the offsets where assign enables the lookup selector and the
\* running-sum cell it constrains to zero (offset C) are those of num_bits
\* and K alone, the same for a known source value (witness generation) and
\* for an unknown one (key generation).
C22_ShapeIndependent ==
  (circuit = "decompose" /\ pc = "done" /\ input.num_bits % cfg.lookup_bits = 0) =>
    DecomposeShape = ShapeOf(input.num_bits \div cfg.lookup_bits)

\* ---------------------------------------------------------------- range checks: the range of a call

\* the verifier reported nothing on the row the i-th assign call wrote
CallRowSatisfied(i) ==
  \A f \in failures : f.region # <<i - 1, regions[i].name>>

\* C23: in both range-check variants, when assign(value, range) was called
\* with range <= lookup_range and the row it wrote satisfies every
\* constraint, the value is in [0, range) for the range passed to that call.
C23_RangeOfCall ==
  (circuit \in {"lookup", "tagged"} /\ pc = "verified") =>
    \A i \in DOMAIN regions :
      (input.ranges[i] <= cfg.lookup_range /\ CallRowSatisfied(i)) =>
        Cell("value", regions[i].start) < input.ranges[i]

\* ---------------------------------------------------------------- use_is_zero: properties

\* the cells of the function region are those FnChip::assign wrote
FnAsAssigned ==
  /\ advice["output"][FnRow] = FnOutput(input.a, input.b, input.c)
  /\ advice["value_inv"][FnRow] = Known(InvertOrZero(FSub(input.a.v, input.b.v)))

\* what the function region must hold in its output cell
FnExpected ==
  IF Cell("a", FnRow) = Cell("b", FnRow) THEN Cell("c", FnRow) ELSE FnValue

\* C24: for all field elements a, b, c the cells FnChip::assign writes
\* satisfy both constraints of the gate "if a == b {c} else {a - b}" and the
\* gate "is zero"; and whatever the value_inv and output cells hold, if the
\* gates hold at the enabled row then output = c when a = b and
\* output = a - b when a # b.
C24_ConditionalSelect ==
  (circuit = "is_zero" /\ pc \in {"done", "verified"} /\ input.a.known) =>
    /\ FnRow \in selectors["selector"]
    /\ FnAsAssigned =>
         /\ FnGateAt(FnRow) = <<0, 0>>
         /\ IsZeroGateAt(FnRow) = 0
         /\ Cell("output", FnRow) = FnExpected
         /\ pc = "verified" => failures = {}
    /\ (FnGateAt(FnRow) = <<0, 0>> /\ IsZeroGateAt(FnRow) = 0) =>
         Cell("output", FnRow) = FnExpected
    /\ (pc = "verified" /\ failures = {}) => Cell("output", FnRow) = FnExpected
    /\ (pc = "verified" /\ Cell("output", FnRow) # FnExpected) => failures # {}

\* a row with a # b was verified: the output is a - b and differs from c
C24_Witness ==
  /\ circuit = "is_zero"
  /\ pc = "verified"
  /\ failures = {}
  /\ FnAsAssigned
  /\ Cell("a", FnRow) # Cell("b", FnRow)
  /\ Cell("output", FnRow) = FnValue
  /\ Cell("output", FnRow) # Cell("c", FnRow)

\* ---------------------------------------------------------------- synthesize: a failed step

\* everything assigned, enabled, loaded or constrained before a step is
\* there, unchanged, after it
WrittenKept ==
  /\ \A col \in AdviceColumns : \A row \in DOMAIN advice[col] :
       row \in DOMAIN advice'[col] /\ advice'[col][row] = advice[col][row]
  /\ \A s \in SelectorNames : selectors[s] \subseteq selectors'[s]
  /\ \A i \in DOMAIN table : i \in DOMAIN table' /\ table'[i] = table[i]
  /\ copies \subseteq copies'
  /\ constants \subseteq constants'

\* C25: in a synthesize pass, once a load or assign step returns an error no
\* later step runs: a state whose result is the error has no step out of it,
\* so the error stays the result of synthesize; the failing step leaves every
\* cell written before it as it was, and nothing is assigned afterwards.
C25_ErrorAborts ==
  [][ /\ result # "Err"
      /\ result' = "Err" => (pc' = "aborted" /\ WrittenKept) ]_vars

\* the second assign of the tagged circuit returned the error: the cell of
\* the first call is written and the table was never loaded
C25_Witness ==
  /\ circuit = "tagged"
  /\ result = "Err"
  /\ pc = "aborted"
  /\ Len(regions) = 2
  /\ Assigned("value", 0)
  /\ loads = 0

\* ---------------------------------------------------------------- Fibonacci: properties

\* the offsets of the region "table" at which the selector is enabled
FiboEnabled == {r - regions[1].start : r \in selectors["selector"]}

\* the cells of the region hold the Fibonacci recurrence from offset 2 on
FiboRecurrence ==
  \A i \in 2 .. (FiboRows - 1) :
    Cell("advice", regions[1].start + i) =
      FAdd(Cell("advice", regions[1].start + i - 2),
           Cell("advice", regions[1].start + i - 1))

\* the exposed cell, and 55 as main writes it: Fp::from(55)
FiboLast == Cell("advice", regions[1].start + FiboRows - 1)

FiboExpected == 55

\* a verified run on first = second = 1
FiboSatisfied ==
  /\ circuit = "fibo"
  /\ pc = "verified"
  /\ failures = {}
  /\ input.first = Known(1)
  /\ input.second = Known(1)

\* C26 (the second half alone): every satisfying assignment with
\* first = second = 1 exposes 55
FiboSound == FiboSatisfied => FiboLast = FromU64(FiboExpected)

\* C26: in the one-column Fibonacci circuit assign enables the gate "add" at
\* every offset 0..7, so a verified assignment has each cell at the offsets
\* 2..9 equal to the sum of the two cells above it, and with
\* first = second = 1 the exposed cell at offset 9 is 55.
C26_FiboConstrained ==
  (circuit = "fibo" /\ pc \in {"expose", "done", "verified"}) =>
    /\ FiboEnabled = 0 .. (FiboGateRows - 1)
    /\ (pc = "verified" /\ failures = {}) => FiboRecurrence
    /\ FiboSound

\* ---------------------------------------------------------------- the multiplication chain: properties

\* the private inputs as the circuit holds them, and (a * b)^2
PrivateA == Cell("advice[0]", NumberCell("a")[2])

PrivateB == Cell("advice[0]", NumberCell("b")[2])

SquareOfProduct == FMul(FMul(PrivateA, PrivateA), FMul(PrivateB, PrivateB))

\* the cell expose_public ties to row 0 of the instance column
Exposed == Cell("advice[0]", NumberCell("abab")[2])

\* the cells of the two regions of mul are those FieldChip::mul wrote
MulAsAssigned ==
  LET r1 == regions[4].start
      r2 == regions[5].start
      ab == FMul(PrivateA, PrivateB)
  IN /\ Cell("advice[0]", r1) = PrivateA
     /\ Cell("advice[1]", r1) = PrivateB
     /\ Cell("advice[0]", r1 + 1) = ab
     /\ Cell("advice[0]", r2) = ab
     /\ Cell("advice[1]", r2) = ab
     /\ Cell("advice[0]", r2 + 1) = FMul(ab, ab)

====
